---- MODULE Spec2Model ----
(***************************************************************************)
(* Model of the SGAR advocacy tool: the council catalog built by           *)
(* SGARTracker, the name resolution of MapController.findCouncilByName,    *)
(* the tracker's filter handlers and the map's filter style function.      *)
(*                                                                         *)
(* JavaScript strings are TLA+ strings handled character by character      *)
(* (Len, SubSeq, \o).  JavaScript values that may be null or undefined     *)
(* are tagged records.                                                     *)
(***************************************************************************)
EXTENDS Integers, Sequences, FiniteSets, TLC

(***************************************************************************)
(* JavaScript values                                                       *)
(***************************************************************************)
JsNull == [t |-> "null"]

JsUndefined == [t |-> "undefined"]

Str(s) == [t |-> "string", v |-> s]

\* a reference to the element i of the councils array
CouncilRef(i) == [t |-> "council", i |-> i]

\* an uncaught TypeError
JsThrow == [t |-> "TypeError"]

\* JavaScript truthiness of null, undefined and strings
Truthy(x) == x.t = "string" /\ x.v # ""

(***************************************************************************)
(* String primitives                                                       *)
(***************************************************************************)
LowerChars == "abcdefghijklmnopqrstuvwxyz"

UpperChars == "ABCDEFGHIJKLMNOPQRSTUVWXYZ"

DigitChars == "0123456789_"

CharsOf(s) == {SubSeq(s, i, i) : i \in 1..Len(s)}

LowerSet == CharsOf(LowerChars)

UpperSet == CharsOf(UpperChars)

\* \w of a JavaScript regular expression
WordCharSet == LowerSet \cup UpperSet \cup CharsOf(DigitChars)

\* \s of a JavaScript regular expression (the members that occur here)
SpaceSet == {" ", "\t"}

UpperMap == [c \in LowerSet |->
               LET i == CHOOSE j \in 1..26 : SubSeq(LowerChars, j, j) = c
               IN  SubSeq(UpperChars, i, i)]

LowerMap == [c \in UpperSet |->
               LET i == CHOOSE j \in 1..26 : SubSeq(UpperChars, j, j) = c
               IN  SubSeq(LowerChars, i, i)]

CharAt(s, i) == SubSeq(s, i, i)

RECURSIVE MapChars(_, _, _)
MapChars(s, i, m) ==
    IF i > Len(s) THEN ""
    ELSE LET c == CharAt(s, i)
         IN  (IF c \in DOMAIN m THEN m[c] ELSE c) \o MapChars(s, i + 1, m)

\* String.prototype.toUpperCase
toUpperCase(s) == MapChars(s, 1, UpperMap)

\* String.prototype.toLowerCase
toLowerCase(s) == MapChars(s, 1, LowerMap)

RECURSIVE TrimStart(_)
TrimStart(s) ==
    IF Len(s) > 0 /\ CharAt(s, 1) \in SpaceSet
    THEN TrimStart(SubSeq(s, 2, Len(s))) ELSE s

RECURSIVE TrimEnd(_)
TrimEnd(s) ==
    IF Len(s) > 0 /\ CharAt(s, Len(s)) \in SpaceSet
    THEN TrimEnd(SubSeq(s, 1, Len(s) - 1)) ELSE s

\* String.prototype.trim
trim(s) == TrimEnd(TrimStart(s))

\* String.prototype.includes
includes(a, b) ==
    \E i \in 0..(Len(a) - Len(b)) : SubSeq(a, i + 1, i + Len(b)) = b

\* is position i (1..Len(s)) of s a word character
IsWordAt(s, i) == i >= 1 /\ i <= Len(s) /\ CharAt(s, i) \in WordCharSet

\* \b between the characters i-1 and i of s
WordBoundary(s, i) == IsWordAt(s, i - 1) # IsWordAt(s, i)

\* does \b w \b match s at position i
MatchWordAt(s, i, w) ==
    /\ i + Len(w) - 1 <= Len(s)
    /\ SubSeq(s, i, i + Len(w) - 1) = w
    /\ WordBoundary(s, i)
    /\ WordBoundary(s, i + Len(w))

\* the first alternative of \b(v1|v2|...)\b that matches s at i, 0 if none
FirstAlternative(s, i, vocab) ==
    IF ~WordBoundary(s, i) THEN 0
    ELSE LET alts == {k \in 1..Len(vocab) : MatchWordAt(s, i, vocab[k])}
         IN  IF alts = {} THEN 0
             ELSE CHOOSE k \in alts : \A j \in alts : k <= j

\* s.replace(/\b(v1|v2|...)\b/g, '') from position i on
RECURSIVE RemoveWords(_, _, _)
RemoveWords(s, i, vocab) ==
    IF i > Len(s) THEN ""
    ELSE LET k == FirstAlternative(s, i, vocab)
         IN  IF k # 0
             THEN RemoveWords(s, i + Len(vocab[k]), vocab)
             ELSE CharAt(s, i) \o RemoveWords(s, i + 1, vocab)

\* s.replace(/\s+/g, ' ') from position i on
RECURSIVE CollapseSpaces(_, _)
CollapseSpaces(s, i) ==
    IF i > Len(s) THEN ""
    ELSE IF CharAt(s, i) \in SpaceSet
         THEN IF i > 1 /\ CharAt(s, i - 1) \in SpaceSet
              THEN CollapseSpaces(s, i + 1)
              ELSE " " \o CollapseSpaces(s, i + 1)
         ELSE CharAt(s, i) \o CollapseSpaces(s, i + 1)

\* s.replace(/\b\w/g, l => l.toUpperCase()) from position i on
RECURSIVE CapitalizeWords(_, _)
CapitalizeWords(s, i) ==
    IF i > Len(s) THEN ""
    ELSE LET c == CharAt(s, i)
         IN  (IF IsWordAt(s, i) /\ ~IsWordAt(s, i - 1) /\ c \in LowerSet
              THEN UpperMap[c] ELSE c) \o CapitalizeWords(s, i + 1)

\* utils.js titleCase
titleCase(str) ==
    IF str = "" THEN "" ELSE CapitalizeWords(toLowerCase(str), 1)

(***************************************************************************)
(* The status catalog: SGARTracker.constructor                             *)
(***************************************************************************)
\* the region table of getCouncilRegion, in its iteration order
regions ==
    <<
      <<"Hunter",
        {"CENTRAL COAST", "CESSNOCK", "DUNGOG", "LAKE MACQUARIE",
         "MAITLAND", "MUSWELLBROOK", "NEWCASTLE", "PORT STEPHENS",
         "SINGLETON", "UPPER HUNTER"}>>,
      <<"Illawarra",
        {"KIAMA", "SHELLHARBOUR", "SHOALHAVEN", "WINGECARRIBEE",
         "WOLLONDILLY", "WOLLONGONG"}>>,
      <<"Metro North",
        {"HORNSBY", "HUNTERS HILL", "KU-RING-GAI", "LANE COVE",
         "MOSMAN", "NORTH SYDNEY", "NORTHERN BEACHES", "RYDE",
         "THE HILLS SHIRE", "WILLOUGHBY"}>>,
      <<"Metro South",
        {"BAYSIDE", "BURWOOD", "CANADA BAY", "CANTERBURY-BANKSTOWN",
         "GEORGES RIVER", "INNER WEST", "RANDWICK", "STRATHFIELD",
         "SUTHERLAND SHIRE", "SYDNEY", "WAVERLEY", "WOOLLAHRA"}>>,
      <<"Metro West",
        {"BLACKTOWN", "BLUE MOUNTAINS", "CAMDEN", "CAMPBELLTOWN",
         "CITY OF PARRAMATTA", "CUMBERLAND", "FAIRFIELD",
         "HAWKESBURY", "LIVERPOOL", "PENRITH"}>>,
      <<"Mid North Coast",
        {"BELLINGEN", "COFFS HARBOUR", "KEMPSEY", "MID-COAST",
         "NAMBUCCA VALLEY", "PORT MACQUARIE-HASTINGS"}>>,
      <<"North Coast",
        {"BALLINA", "BYRON", "CLARENCE VALLEY", "KYOGLE", "LISMORE",
         "RICHMOND VALLEY", "TWEED"}>>,
      <<"Northern Inland",
        {"ARMIDALE REGIONAL", "GLEN INNES SEVERN", "GUNNEDAH",
         "GWYDIR", "INVERELL", "LIVERPOOL PLAINS", "MOREE PLAINS",
         "NARRABRI", "TAMWORTH REGIONAL", "TENTERFIELD", "URALLA",
         "WALCHA"}>>,
      <<"Central West",
        {"BATHURST REGIONAL", "BLAYNEY", "CABONNE", "COWRA", "FORBES",
         "LACHLAN", "LITHGOW CITY", "OBERON", "ORANGE", "PARKES",
         "WEDDIN"}>>,
      <<"Orana",
        {"BOGAN", "BOURKE", "BREWARRINA", "BROKEN HILL",
         "CENTRAL DARLING", "COBAR", "COONAMBLE", "DUBBO REGIONAL",
         "GILGANDRA", "MID-WESTERN REGIONAL", "NARROMINE", "WALGETT",
         "WARREN", "WARRUMBUNGLE"}>>,
      <<"South East",
        {"BEGA VALLEY", "EUROBODALLA", "GOULBURN MULWAREE",
         "QUEANBEYAN-PALERANG REGIONAL", "SNOWY MONARO REGIONAL",
         "UPPER LACHLAN SHIRE", "YASS VALLEY"}>>,
      <<"South West",
        {"ALBURY CITY", "BALRANALD", "BERRIGAN", "BLAND",
         "CARRATHOOL", "COOLAMON", "COOTAMUNDRA-GUNDAGAI REGIONAL",
         "EDWARD RIVER", "FEDERATION", "GREATER HUME SHIRE",
         "GRIFFITH", "HAY", "HILLTOPS", "JUNEE", "LEETON", "LOCKHART",
         "MURRAY RIVER", "MURRUMBIDGEE", "NARRANDERA",
         "SNOWY VALLEYS", "TEMORA", "WAGGA WAGGA", "WENTWORTH"}>>
    >>

\* sgar-tracker.js getCouncilRegion
getCouncilRegion(councilName) ==
    LET upperName == toUpperCase(councilName)
        hits == {k \in 1..Len(regions) : upperName \in regions[k][2]}
    IN  IF hits = {} THEN "Other"
        ELSE regions[CHOOSE k \in hits : \A j \in hits : k <= j][1]

\* one element of this.councils, built from the entry <<name, data>>
CouncilOf(entry) ==
    [name   |-> titleCase(entry[1]),
     status |-> entry[2].sgars,
     notes  |-> entry[2].notes,
     region |-> getCouncilRegion(entry[1])]

\* this.councils = Object.entries(councilData).map(...)
BuildCouncils(councilData) ==
    [i \in 1..Len(councilData) |-> CouncilOf(councilData[i])]

(***************************************************************************)
(* Name resolution: MapController.findCouncilByName                        *)
(***************************************************************************)
\* the alternation of the regular expression applied to the GIS name
GisQualifiers ==
    <<"CITY", "SHIRE", "REGIONAL", "MUNICIPAL", "COUNCIL",
      "THE COUNCIL OF THE", "MUNICIPALITY OF", "CITY OF", "SHIRE OF">>

\* the alternation of the regular expression applied to a council name
CouncilQualifiers ==
    <<"CITY", "SHIRE", "REGIONAL", "MUNICIPAL", "COUNCIL">>

\* name.replace(/\b(...)\b/g, '').replace(/\s+/g, ' ').trim()
CleanName(s, vocab) == trim(CollapseSpaces(RemoveWords(s, 1, vocab), 1))

cleanGisName(normalizedGisName) == CleanName(normalizedGisName, GisQualifiers)

cleanCouncilName(councilName) == CleanName(councilName, CouncilQualifiers)

\* Array.prototype.find over this.councils, passes[i] being the result of
\* the callback on the i-th council: a reference to the first element that
\* passes, undefined if there is none
ArrayFind(passes) ==
    LET hits == {i \in DOMAIN passes : passes[i]}
    IN  IF hits = {} THEN JsUndefined
        ELSE CouncilRef(CHOOSE i \in hits : \A j \in hits : i <= j)

\* variant: the reverse index is keyed and read by upper-cased, trimmed
\* names
ReverseLookup_Normalized(nameMapping, gisName) ==
    LET hits == {k \in 1..Len(nameMapping) :
                   trim(toUpperCase(nameMapping[k][2]))
                     = trim(toUpperCase(gisName))}
    IN  IF hits = {} THEN JsUndefined
        ELSE Str(nameMapping[CHOOSE k \in hits : \A j \in hits : j <= k][1])

\* reverseMapping[gisName] after the loop over Object.entries(nameMapping):
\* the key of the last entry whose value is gisName
ReverseLookup(nameMapping, gisName) ==
    LET hits == {k \in 1..Len(nameMapping) : nameMapping[k][2] = gisName}
    IN  IF hits = {} THEN JsUndefined
        ELSE Str(nameMapping[CHOOSE k \in hits : \A j \in hits : j <= k][1])

\* variant: the mapped id is compared without toUpperCase
MappedNameTest_CaseSensitive(council, ourName) ==
    \/ council.name = ourName
    \/ CollapseSpaces(council.name, 1) = CollapseSpaces(ourName, 1)

\* the test of the find in the exact-mapping step
MappedNameTest(council, ourName) ==
    \/ toUpperCase(council.name) = toUpperCase(ourName)
    \/ CollapseSpaces(toUpperCase(council.name), 1)
         = CollapseSpaces(toUpperCase(ourName), 1)

\* variant: containment is tested in one direction only
FuzzyTest_OneDirection(council, normalizedGisName, cleanGis) ==
    LET councilName == toUpperCase(council.name)
    IN  \/ councilName = normalizedGisName
        \/ LET cleanCouncil == cleanCouncilName(councilName)
           IN  \/ cleanCouncil = cleanGis
               \/ includes(cleanCouncil, cleanGis)

\* the test of the find in the fuzzy step; cleanGis is cleanGisName
FuzzyTest(council, normalizedGisName, cleanGis) ==
    LET councilName == toUpperCase(council.name)
    IN  \/ councilName = normalizedGisName
        \/ LET cleanCouncil == cleanCouncilName(councilName)
           IN  \/ cleanCouncil = cleanGis
               \/ includes(cleanCouncil, cleanGis)
               \/ includes(cleanGis, cleanCouncil)

\* the fuzzy step: lines "Fallback to fuzzy matching" to the end
FuzzyMatch(councils, gisName) ==
    LET normalizedGisName == trim(toUpperCase(gisName))
        cleanGis == cleanGisName(normalizedGisName)
    IN  ArrayFind([i \in 1..Len(councils) |->
                     FuzzyTest(councils[i], normalizedGisName, cleanGis)])

\* variant: the mapped id is searched by containment like a fuzzy name
MappedMatch_ByContainment(councils, ourName) ==
    ArrayFind([i \in 1..Len(councils) |->
                 \/ includes(toUpperCase(ourName), toUpperCase(councils[i].name))
                 \/ includes(toUpperCase(councils[i].name), toUpperCase(ourName))])

\* the exact-mapping step once reverseMapping[gisName] is truthy
MappedMatch(councils, ourName) ==
    ArrayFind([i \in 1..Len(councils) |->
                 MappedNameTest(councils[i], ourName)])

\* does the call take the exact-mapping branch
MappingHit(nameMapping, gisName) ==
    /\ nameMapping # JsNull
    /\ Truthy(ReverseLookup(nameMapping.entries, gisName))

\* variant: the guard tests for null and undefined only
findCouncilByName_NullGuardOnly(gisName, councils, nameMapping) ==
    IF gisName \in {JsNull, JsUndefined} THEN JsNull
    ELSE IF MappingHit(nameMapping, gisName.v)
         THEN MappedMatch(councils,
                          ReverseLookup(nameMapping.entries, gisName.v).v)
         ELSE FuzzyMatch(councils, gisName.v)

\* MapController.findCouncilByName(gisName)
findCouncilByName(gisName, councils, nameMapping) ==
    IF ~Truthy(gisName) THEN JsNull
    ELSE IF MappingHit(nameMapping, gisName.v)
         THEN MappedMatch(councils,
                          ReverseLookup(nameMapping.entries, gisName.v).v)
         ELSE FuzzyMatch(councils, gisName.v)

(***************************************************************************)
(* Inputs: the documents and events the environment supplies               *)
(***************************************************************************)
Data(sgars, notes) == [sgars |-> sgars, notes |-> notes]

\* council data documents (window.councilDataPromise), as Object.entries
DataAlphabetical ==
    << <<"LITHGOW CITY", Data("Unknown", "No response from council")>>,
       <<"LIVERPOOL", Data("Yes", "Uses SGARs in parks")>>,
       <<"LIVERPOOL PLAINS", Data("No", "SGAR-free since 2023")>>,
       <<"NORTH SYDNEY", Data("No", "Motion passed")>>,
       <<"SYDNEY", Data("Yes", "Uses SGARs in city parks")>> >>

DataSydneyOnly ==
    << <<"SYDNEY", Data("Yes", "Uses SGARs in city parks")>> >>

DataMixedCase ==
    << <<"Sydney", Data("Yes", "")>>,
       <<"LIVERPOOL PLAINS", Data("No", "SGAR-free since 2023")>>,
       <<"liverpool", Data("Unknown", "")>>,
       <<"Lithgow City", Data("Yes", "Under review")>>,
       <<"Norfolk Island", Data("Unknown", "External territory")>> >>

\* documents with a record whose status is outside the three values
DataInvalidStatus ==
    << <<"LIVERPOOL", Data("Maybe", "Awaiting reply")>>,
       <<"SYDNEY", Data("Yes", "Uses SGARs in city parks")>> >>

DataEmptyStatus ==
    << <<"LITHGOW CITY", Data("", "No response from council")>>,
       <<"SYDNEY", Data("Yes", "Uses SGARs in city parks")>> >>

\* a document with two keys that differ in letter case only
DataCaseKeys ==
    << <<"SYDNEY", Data("Yes", "Uses SGARs in city parks")>>,
       <<"Sydney", Data("Unknown", "Duplicate entry")>>,
       <<"LIVERPOOL", Data("No", "Motion passed")>> >>

CouncilDataDocs == {DataAlphabetical, DataSydneyOnly, DataMixedCase}

\* name mapping documents (data/council_name_mapping.json), as
\* Object.entries: our name -> official GIS name
MappingDocumented ==
    << <<"SYDNEY", "Council of the City of Sydney">>,
       <<"LITHGOW CITY", "Lithgow City Council">>,
       <<"LIVERPOOL PLAINS", "Liverpool Plains Shire Council">>,
       <<"HUNTERS HILL", "The Council of the Municipality of Hunters Hill">> >>

\* a mapping whose keys have drifted away from the catalog
MappingDrifted ==
    << <<"CITY OF SYDNEY", "Council of the City of Sydney">>,
       <<"LITHGOW", "Lithgow City Council">>,
       <<"LIVERPOOL PLAINS", "Liverpool Plains Shire Council">> >>

\* a mapping whose keys differ from the catalog in case and spacing
MappingLoose ==
    << <<"Sydney", "Council of the City of Sydney">>,
       <<"lithgow  city", "Lithgow City Council">>,
       <<"Liverpool Plains", "Liverpool Plains Shire Council">> >>

MappingDocs == {MappingDocumented, MappingDrifted, MappingLoose}

\* the ways the load of the mapping fails
LoadFailures == {"fetch rejected", "response not ok", "body not JSON"}

\* the names findCouncilByName is called with
GisNames ==
    {"Council of the City of Sydney", "COUNCIL OF THE CITY OF SYDNEY",
     " Council of the City of Sydney ", "Lithgow City Council",
     "lithgow city council", "Liverpool Plains Shire Council",
     "LIVERPOOL PLAINS SHIRE COUNCIL", "Liverpool Plains Shire Council ",
     "Liverpool City Council", "North Sydney Council",
     "The Council of the Municipality of Hunters Hill", "Sydney",
     "LIVERPOOL PLAINS", "Liverpool", "City Council",
     "Unincorporated NSW", "Pool", "Norfolk Island Regional Council"}

Candidates == {JsNull, JsUndefined, Str("")} \cup {Str(g) : g \in GisNames}

(***************************************************************************)
(* GeoJSON features: property bags read with feature.get(key)              *)
(***************************************************************************)
\* variant: the upper-case keys are probed first
NameKeys_UpperFirst ==
    <<"LGA_NAME", "NAME", "LGA_NAME22", "LGA_NAM", "lga_name_2021",
      "lga_name", "name", "lga_nam11", "lga_name16", "lgaName">>

\* the property keys probed for the LGA name, in order
NameKeys ==
    <<"lga_name_2021", "lga_name", "LGA_NAME", "name", "NAME", "lga_nam11",
      "lga_name16", "LGA_NAME22", "lgaName", "LGA_NAM">>

\* feature.get(key)
Get(feature, key) ==
    IF key \in DOMAIN feature THEN feature[key] ELSE JsUndefined

\* a || b || c ... : the first truthy operand, else the last operand
RECURSIVE FirstTruthy(_, _, _)
FirstTruthy(feature, keys, k) ==
    IF k = Len(keys) \/ Truthy(Get(feature, keys[k]))
    THEN Get(feature, keys[k])
    ELSE FirstTruthy(feature, keys, k + 1)

\* feature.get('lga_name_2021') || feature.get('lga_name') || ...
FeatureName(feature) == FirstTruthy(feature, NameKeys, 1)

\* feature sets the boundary source may deliver
FeaturesNSW ==
    << [lga_name_2021 |-> Str("Council of the City of Sydney")],
       [lga_name_2021 |-> Str(""), lga_name |-> Str("Liverpool City Council")],
       [LGA_NAME |-> Str("Lithgow City Council")],
       [name |-> Str("Unincorporated NSW")] >>

\* the source answers with a collection that holds no feature
FeaturesNone == <<>>

FeatureSets == {FeaturesNSW, FeaturesNone}

(***************************************************************************)
(* Styles: MapController.getStatusColors, getLGAStyle, getDefaultStyle     *)
(***************************************************************************)
NoPaint == "none"

\* new ol.style.Style({fill, stroke})
Style(fill, stroke) == [fill |-> fill, stroke |-> stroke]

\* variant: the default branch returns the fill of the unmapped style
getStatusColors_DefaultAsUnmapped(status, isHover) ==
    CASE status = "Yes" ->
           [fill   |-> IF isHover THEN "rgba(220, 53, 69, 0.8)"
                       ELSE "rgba(220, 53, 69, 0.7)",
            border |-> JsNull,
            hover  |-> "rgba(220, 53, 69, 0.85)"]
      [] status = "No" ->
           [fill   |-> IF isHover THEN "rgba(40, 167, 69, 0.8)"
                       ELSE "rgba(40, 167, 69, 0.7)",
            border |-> JsNull,
            hover  |-> "rgba(40, 167, 69, 0.85)"]
      [] OTHER ->
           [fill   |-> "rgba(248, 249, 250, 0.4)",
            border |-> JsNull,
            hover  |-> "rgba(108, 117, 125, 0.75)"]

\* variant: the hover fill of the green family is opaque
getStatusColors_HoverOpaque(status, isHover) ==
    CASE status = "Yes" ->
           [fill   |-> IF isHover THEN "rgba(220, 53, 69, 0.8)"
                       ELSE "rgba(220, 53, 69, 0.7)",
            border |-> JsNull,
            hover  |-> "rgba(220, 53, 69, 0.85)"]
      [] status = "No" ->
           [fill   |-> IF isHover THEN "rgba(40, 167, 69, 1.0)"
                       ELSE "rgba(40, 167, 69, 0.7)",
            border |-> JsNull,
            hover  |-> "rgba(40, 167, 69, 0.85)"]
      [] OTHER ->
           [fill   |-> IF isHover THEN "rgba(108, 117, 125, 0.7)"
                       ELSE "rgba(108, 117, 125, 0.6)",
            border |-> JsNull,
            hover  |-> "rgba(108, 117, 125, 0.75)"]

\* getStatusColors(status, isHover)
getStatusColors(status, isHover) ==
    CASE status = "Yes" ->
           [fill   |-> IF isHover THEN "rgba(220, 53, 69, 0.8)"
                       ELSE "rgba(220, 53, 69, 0.7)",
            border |-> JsNull,
            hover  |-> "rgba(220, 53, 69, 0.85)"]
      [] status = "No" ->
           [fill   |-> IF isHover THEN "rgba(40, 167, 69, 0.8)"
                       ELSE "rgba(40, 167, 69, 0.7)",
            border |-> JsNull,
            hover  |-> "rgba(40, 167, 69, 0.85)"]
      [] OTHER ->
           [fill   |-> IF isHover THEN "rgba(108, 117, 125, 0.7)"
                       ELSE "rgba(108, 117, 125, 0.6)",
            border |-> JsNull,
            hover  |-> "rgba(108, 117, 125, 0.75)"]

\* MapController.getDefaultStyle
getDefaultStyle == Style("rgba(200, 200, 200, 0.1)", "#cccccc")

\* new ol.style.Style({}): nothing is drawn
EmptyStyle == Style(NoPaint, NoPaint)

\* is the result of findCouncilByName falsy
NotFound(r) == r.t # "council"

\* variant: the fill is the hover fill of the status
getLGAStyle_HoverFill(feature, cs, mapping) ==
    LET council == findCouncilByName(FeatureName(feature), cs, mapping)
    IN  IF NotFound(council)
        THEN Style("rgba(248, 249, 250, 0.4)", NoPaint)
        ELSE Style(getStatusColors(cs[council.i].status, TRUE).fill, NoPaint)

\* MapController.getLGAStyle(feature)
getLGAStyle(feature, cs, mapping) ==
    LET council == findCouncilByName(FeatureName(feature), cs, mapping)
    IN  IF NotFound(council)
        THEN Style("rgba(248, 249, 250, 0.4)", NoPaint)
        ELSE Style(getStatusColors(cs[council.i].status, FALSE).fill, NoPaint)

\* does the status test of the filter style function hide the council
StatusHides(filter, council) ==
    /\ filter # JsNull
    /\ Len(filter.status) > 0
    /\ \A k \in 1..Len(filter.status) : filter.status[k] # council.status

\* the style function installed by MapController.applyFilter(filter)
FilterStyle(feature, filter, cs, mapping) ==
    LET council == findCouncilByName(FeatureName(feature), cs, mapping)
    IN  IF NotFound(council) THEN getDefaultStyle
        ELSE IF StatusHides(filter, cs[council.i]) THEN EmptyStyle
        ELSE getLGAStyle(feature, cs, mapping)

(***************************************************************************)
(* The tracker's filter: SGARTracker.getFilteredCouncils                   *)
(***************************************************************************)
\* Array.prototype.includes on an array of strings
ArrayIncludes(arr, x) == \E k \in 1..Len(arr) : arr[k] = x

\* variant: the region test is missing
FilterTest_RegionIgnored(council, f) ==
    IF Len(f.status) > 0 /\ ~ArrayIncludes(f.status, council.status)
    THEN FALSE
    ELSE IF f.search # ""
    THEN LET searchTerm == toLowerCase(f.search)
         IN  \/ includes(toLowerCase(council.name), searchTerm)
             \/ includes(toLowerCase(council.region), searchTerm)
             \/ includes(toLowerCase(council.notes), searchTerm)
    ELSE TRUE

\* variant: an empty status array matches no status
FilterTest_EmptyStatusRejects(council, f) ==
    IF ~ArrayIncludes(f.status, council.status)
    THEN FALSE
    ELSE IF Len(f.region) > 0 /\ ~ArrayIncludes(f.region, council.region)
    THEN FALSE
    ELSE IF f.search # ""
    THEN LET searchTerm == toLowerCase(f.search)
         IN  \/ includes(toLowerCase(council.name), searchTerm)
             \/ includes(toLowerCase(council.region), searchTerm)
             \/ includes(toLowerCase(council.notes), searchTerm)
    ELSE TRUE

\* the callback of this.councils.filter in getFilteredCouncils
FilterTest(council, f) ==
    IF Len(f.status) > 0 /\ ~ArrayIncludes(f.status, council.status)
    THEN FALSE
    ELSE IF Len(f.region) > 0 /\ ~ArrayIncludes(f.region, council.region)
    THEN FALSE
    ELSE IF f.search # ""
    THEN LET searchTerm == toLowerCase(f.search)
         IN  \/ includes(toLowerCase(council.name), searchTerm)
             \/ includes(toLowerCase(council.region), searchTerm)
             \/ includes(toLowerCase(council.notes), searchTerm)
    ELSE TRUE

\* SGARTracker.getFilteredCouncils: the councils that pass, in catalog order
getFilteredCouncils(cs, f) ==
    LET Test(council) == FilterTest(council, f)
    IN  SelectSeq(cs, Test)

(***************************************************************************)
(* Program state                                                           *)
(***************************************************************************)
VARIABLES
    pc,             \* where initializeApp stands
    councilData,    \* the document window.councilDataPromise resolves to
    councils,       \* SGARTracker.councils, the array MapController shares
    filterObjs,     \* the filter objects on the heap, by reference
    filters,        \* SGARTracker.filters: a reference into filterObjs
    mapController,  \* SGARTracker.mapController
    nameMapping,    \* MapController.nameMapping
    loadOutcome,    \* how the fetch of the name mapping ended
    lgaLayer,       \* MapController.lgaLayer with its style function
    boundaries,     \* the state of the boundary source's loader
    features,       \* the features of the boundary source
    currentFilter,  \* MapController.currentFilter: a reference or null
    lastCall,       \* the last findCouncilByName call and what it returned
    lastStyle,      \* the last style pass over a feature
    earlierCall,    \* a findCouncilByName call a caller still holds the
                    \* result of
    lastApply,      \* the last application of a function to given arguments
    styleCallCount, \* MapController.styleCallCount
    innerWidth,     \* window.innerWidth
    currentView,    \* SGARTracker.currentView
    pagination,     \* SGARTracker.pagination
    toastQueue,     \* UIController.toastQueue
    activeToasts,   \* UIController.activeToasts
    toastContainer, \* the toasts whose elements are children of toastContainer
    autoTimers,     \* the toasts whose auto-dismiss timer is pending
    removals,       \* the pending 300 ms timers of dismissToast, oldest first
    toastsShown     \* the number of showToast calls so far

vars == <<pc, councilData, councils, filterObjs, filters, mapController,
          nameMapping, loadOutcome, lgaLayer, boundaries, features,
          currentFilter, lastCall, lastStyle, earlierCall, lastApply,
          styleCallCount, innerWidth, currentView, pagination,
          toastQueue, activeToasts, toastContainer, autoTimers, removals,
          toastsShown>>

trackerVars == <<councilData, councils, filterObjs, filters, mapController>>

mapVars == <<nameMapping, loadOutcome, lgaLayer, boundaries, features,
             currentFilter>>

\* what only the resolution-twice and function-application steps record
probes == <<earlierCall, lastApply>>

\* the view and the pagination of the tracker
pageVars == <<innerWidth, currentView, pagination>>

\* the toasts of the UIController
toastVars == <<toastQueue, activeToasts, toastContainer, autoTimers, removals,
               toastsShown>>

\* the number of filter objects that can be live at once
MaxFilterObjects == 3

FilterIds == 1..MaxFilterObjects

\* the number of features a style pass may visit
MaxFeatures == 4

Free == [t |-> "free"]

\* the literal { status: [], region: [], search: '', quickFilter: q }
NewFilters(status, q) ==
    [status |-> status, region |-> <<>>, search |-> "", quickFilter |-> q]

\* the constraints of a filter object, as a value
Criteria(f) == [status |-> f.status, region |-> f.region, search |-> f.search]

\* the null reference
NoRef == 0

RefSet(r) == IF r = NoRef THEN {} ELSE {r}

LayerRefs(layer) ==
    IF layer # JsNull /\ layer.style = "filter" THEN RefSet(layer.filter)
    ELSE {}

\* the reference a newly created filter object gets
NewRef ==
    LET live == {filters} \cup RefSet(currentFilter) \cup LayerRefs(lgaLayer)
    IN  CHOOSE id \in FilterIds \ live : \A j \in FilterIds \ live : id <= j

\* SGARTracker.getCardsPerPage, width being window.innerWidth
getCardsPerPage(width) ==
    IF width >= 1024 THEN 24
    ELSE IF width >= 768 THEN 18
    ELSE 12

\* Math.ceil(n / d) for n >= 0, d > 0
Ceil(n, d) == (n + d - 1) \div d

\* variant: the current page is kept when it lies beyond the last page
renderCouncils_KeepsPage(pag, n) ==
    [pag EXCEPT !.totalPages = Ceil(n, pag.cardsPerPage)]

\* SGARTracker.renderCouncils: what it assigns to this.pagination when
\* getFilteredCouncils returns n councils
renderCouncils(pag, n) ==
    LET totalPages == Ceil(n, pag.cardsPerPage)
    IN  [pag EXCEPT !.totalPages = totalPages,
                    !.currentPage = IF @ > totalPages THEN 1 ELSE @]

\* the widths the window is given: desktop, tablet, mobile
DesktopWidth == 1280

Widths == {DesktopWidth, 800, 400}

\* before the UIController exists: no toast, no timer
NoToasts ==
    /\ toastQueue = <<>>
    /\ activeToasts = <<>>
    /\ toastContainer = {}
    /\ autoTimers = <<>>
    /\ removals = <<>>
    /\ toastsShown = 0

\* the state every start has in common: nothing is constructed yet
Unconstructed ==
    /\ pc = "loading"
    /\ councils = <<>>
    /\ filterObjs = [id \in FilterIds |-> Free]
    /\ filters = NoRef
    /\ mapController = JsNull
    /\ nameMapping = JsNull
    /\ loadOutcome = "pending"
    /\ lgaLayer = JsNull
    /\ boundaries = "none"
    /\ features = <<>>
    /\ currentFilter = NoRef
    /\ lastCall = JsNull
    /\ lastStyle = JsNull
    /\ earlierCall = JsNull
    /\ lastApply = JsNull
    /\ styleCallCount = 0
    /\ currentView = "map"
    /\ pagination = JsNull
    /\ NoToasts

Init ==
    /\ councilData \in CouncilDataDocs
    /\ innerWidth = DesktopWidth
    /\ Unconstructed

\* validateCouncilData, the check "Validate SGAR status": the errors it
\* pushes for the sgars field (an empty string is falsy and is not checked)
validStatuses == {"Yes", "No", "Unknown"}

StatusErrors(data) ==
    IF data.sgars # "" /\ data.sgars \notin validStatuses
    THEN <<"Invalid SGAR status: " \o data.sgars>>
    ELSE <<>>

\* initializeApp: the names of the entries whose validation is not valid;
\* the list goes to console.warn and nothing else reads it
validationErrors(doc) ==
    LET Invalid(entry) == StatusErrors(entry[2]) # <<>>
    IN  SelectSeq(doc, Invalid)

(***************************************************************************)
(* Start-up: initializeApp, MapController.init                             *)
(***************************************************************************)
\* initializeApp up to "await mapController.init()": the SGARTracker and
\* the MapController are constructed, init() runs createMap and createPopup
\* and waits for loadNameMapping
InitializeApp ==
    /\ pc = "loading"
    /\ pc' = "mapInit"
    /\ councils' = BuildCouncils(councilData)
    /\ filters' = 1
    /\ filterObjs' = [filterObjs EXCEPT ![1] = NewFilters(<<>>, JsNull)]
    /\ currentView' = "map"
    /\ pagination' = [currentPage  |-> 1,
                      cardsPerPage |-> getCardsPerPage(innerWidth),
                      totalPages   |-> 1]
    /\ UNCHANGED <<councilData, mapController, innerWidth>>
    /\ UNCHANGED mapVars
    /\ UNCHANGED <<lastCall, lastStyle>>
    /\ UNCHANGED probes
    /\ UNCHANGED styleCallCount
    /\ UNCHANGED toastVars

\* loadNameMapping: the fetch delivers the document
LoadNameMappingOk(doc) ==
    /\ pc = "mapInit"
    /\ pc' = "mappingDone"
    /\ loadOutcome' = "loaded"
    /\ nameMapping' = [t |-> "object", entries |-> doc]
    /\ UNCHANGED trackerVars
    /\ UNCHANGED <<lgaLayer, boundaries, features, currentFilter>>
    /\ UNCHANGED <<lastCall, lastStyle>>
    /\ UNCHANGED probes
    /\ UNCHANGED styleCallCount
    /\ UNCHANGED pageVars
    /\ UNCHANGED toastVars

\* variant: loadNameMapping has no catch block, init() rejects
LoadNameMappingFail_Uncaught(why) ==
    /\ pc = "mapInit"
    /\ pc' = "initFailed"
    /\ why \in LoadFailures
    /\ loadOutcome' = "failed"
    /\ UNCHANGED nameMapping
    /\ UNCHANGED trackerVars
    /\ UNCHANGED <<lgaLayer, boundaries, features, currentFilter>>
    /\ UNCHANGED <<lastCall, lastStyle>>
    /\ UNCHANGED probes
    /\ UNCHANGED styleCallCount
    /\ UNCHANGED pageVars
    /\ UNCHANGED toastVars

\* loadNameMapping: the fetch rejects, the response is not OK or its body
\* does not parse; the catch block logs and returns
LoadNameMappingFail(why) ==
    /\ pc = "mapInit"
    /\ pc' = "mappingDone"
    /\ why \in LoadFailures
    /\ loadOutcome' = "failed"
    /\ UNCHANGED nameMapping
    /\ UNCHANGED trackerVars
    /\ UNCHANGED <<lgaLayer, boundaries, features, currentFilter>>
    /\ UNCHANGED <<lastCall, lastStyle>>
    /\ UNCHANGED probes
    /\ UNCHANGED styleCallCount
    /\ UNCHANGED pageVars
    /\ UNCHANGED toastVars

\* MapController.init after the await: loadCouncilBoundaries creates the
\* LGA layer with getLGAStyle as its style, then setupMapControls
MapInitResume ==
    /\ pc = "mappingDone"
    /\ pc' = "mapInitDone"
    /\ lgaLayer' = [style |-> "getLGAStyle"]
    /\ boundaries' = "requested"
    /\ UNCHANGED trackerVars
    /\ UNCHANGED <<nameMapping, loadOutcome, features, currentFilter>>
    /\ UNCHANGED <<lastCall, lastStyle>>
    /\ UNCHANGED probes
    /\ UNCHANGED styleCallCount
    /\ UNCHANGED pageVars
    /\ UNCHANGED toastVars

\* initializeApp after the await: the UIController is created and
\* app.setMapController(mapController) links the tracker to the map
InitializeAppResume ==
    /\ pc = "mapInitDone"
    /\ pc' = "ready"
    /\ mapController' = [t |-> "MapController"]
    /\ UNCHANGED <<councilData, councils, filterObjs, filters>>
    /\ UNCHANGED mapVars
    /\ UNCHANGED <<lastCall, lastStyle>>
    /\ UNCHANGED probes
    /\ UNCHANGED styleCallCount
    /\ UNCHANGED pageVars
    /\ UNCHANGED toastVars

\* the loader of the boundary source adds the fetched features and
\* onBoundariesLoaded reports them: it returns early when there is none,
\* else it logs the first five and calls updateMapData, which only logs
BoundariesLoaded(fs) ==
    /\ pc = "ready"
    /\ boundaries = "requested"
    /\ boundaries' = "loaded"
    /\ features' = fs
    /\ UNCHANGED pc
    /\ UNCHANGED trackerVars
    /\ UNCHANGED <<nameMapping, loadOutcome, lgaLayer, currentFilter>>
    /\ UNCHANGED <<lastCall, lastStyle>>
    /\ UNCHANGED probes
    /\ UNCHANGED styleCallCount
    /\ UNCHANGED pageVars
    /\ UNCHANGED toastVars

\* variant: the loader has no catch, the rejection ends the application
BoundariesFailed_Throws ==
    /\ pc = "ready"
    /\ boundaries = "requested"
    /\ boundaries' = "failed"
    /\ pc' = "initFailed"
    /\ UNCHANGED trackerVars
    /\ UNCHANGED <<nameMapping, loadOutcome, lgaLayer, features,
                   currentFilter>>
    /\ UNCHANGED <<lastCall, lastStyle>>
    /\ UNCHANGED probes
    /\ UNCHANGED styleCallCount
    /\ UNCHANGED pageVars
    /\ UNCHANGED toastVars

\* the fetch of the boundaries fails: the loader's catch logs the error
BoundariesFailed ==
    /\ pc = "ready"
    /\ boundaries = "requested"
    /\ boundaries' = "failed"
    /\ UNCHANGED pc
    /\ UNCHANGED trackerVars
    /\ UNCHANGED <<nameMapping, loadOutcome, lgaLayer, features,
                   currentFilter>>
    /\ UNCHANGED <<lastCall, lastStyle>>
    /\ UNCHANGED probes
    /\ UNCHANGED styleCallCount
    /\ UNCHANGED pageVars
    /\ UNCHANGED toastVars

\* user events are served while initializeApp waits and once it is done
EventsServed == pc \in {"mapInit", "ready"}

(***************************************************************************)
(* MapController.applyFilter and the tracker's event handlers              *)
(***************************************************************************)
\* MapController.applyFilter(filter), filter being the reference ref into
\* the heap objs: the reference is stored and, when the LGA layer exists,
\* a style function closing over it is installed
MapApplyFilter(ref, objs) ==
    [currentFilter |-> ref,
     lgaLayer      |-> IF lgaLayer # JsNull
                       THEN [style |-> "filter", filter |-> ref]
                       ELSE lgaLayer]

\* "if (this.mapController) this.mapController.applyFilter(this.filters)"
UpdateMap(ref, objs) ==
    IF mapController # JsNull
    THEN MapApplyFilter(ref, objs)
    ELSE [currentFilter |-> currentFilter, lgaLayer |-> lgaLayer]

\* the state of the map as it is
MapUnchanged ==
    [currentFilter |-> currentFilter, lgaLayer |-> lgaLayer]

\* References are opaque: after a handler the live filter objects are
\* renumbered in the order this.filters, currentFilter, the style
\* function's filter, and the unreachable objects are dropped.
Renumber(r, f, c) ==
    CASE r = NoRef -> NoRef
      [] r = f -> 1
      [] r = c -> 2
      [] OTHER -> IF c \in {NoRef, f} THEN 2 ELSE 3

\* the handler leaves this.filters = f, the heap objs and the map fields m
Commit(f, objs, m) ==
    LET c    == m.currentFilter
        live == {f} \cup RefSet(c) \cup LayerRefs(m.lgaLayer)
    IN  /\ filters' = Renumber(f, f, c)
        /\ currentFilter' = Renumber(c, f, c)
        /\ lgaLayer' = IF LayerRefs(m.lgaLayer) = {} THEN m.lgaLayer
                       ELSE [m.lgaLayer EXCEPT !.filter = Renumber(@, f, c)]
        /\ filterObjs' =
             [id \in FilterIds |->
                IF \E r \in live : Renumber(r, f, c) = id
                THEN objs[CHOOSE r \in live : Renumber(r, f, c) = id]
                ELSE Free]

\* the status array a quick filter or a dropdown value stands for
StatusOf(value) ==
    CASE value = "using-sgars" -> <<"Yes">>
      [] value = "sgar-free" -> <<"No">>
      [] value = "unknown" -> <<"Unknown">>
      [] OTHER -> <<>>

\* the data-filter values of the quick-filter buttons and the values of
\* the status dropdown
FilterTypes == {"all", "using-sgars", "sgar-free", "unknown"}

\* regionMap[value] || [value]
RegionOf(value) ==
    CASE value = "sydney-metropolitan" -> <<"Sydney Metropolitan">>
      [] value = "regional-nsw" -> <<"Regional NSW">>
      [] value = "hunter-region" -> <<"Hunter Region">>
      [] value = "illawarra-region" -> <<"Illawarra Region">>
      [] OTHER -> <<value>>

\* values of the region dropdown
RegionValues == {"all", "hunter-region", "Metro South"}

\* texts typed into the search box
SearchTexts == {"", "Parks"}

\* council names handed to selectCouncil
SelectNames == {"Liverpool Plains"}

\* a handler that replaces this.filters by a new object and updates the map
ReplaceFilters(obj) ==
    LET ref  == NewRef
        objs == [filterObjs EXCEPT ![ref] = obj]
    IN  Commit(ref, objs, UpdateMap(ref, objs))

\* a handler that assigns to a property of the existing this.filters
MutateFilters(obj, updatesMap) ==
    LET objs == [filterObjs EXCEPT ![filters] = obj]
    IN  Commit(filters, objs,
               IF updatesMap THEN UpdateMap(filters, objs) ELSE MapUnchanged)

\* what every handler of the tracker leaves alone; the style pass that was
\* recorded belongs to the state before the event
EventFrame ==
    /\ EventsServed
    /\ UNCHANGED <<pc, councilData, councils, mapController>>
    /\ UNCHANGED <<nameMapping, loadOutcome, boundaries, features>>
    /\ UNCHANGED lastCall
    /\ lastStyle' = JsNull
    /\ UNCHANGED probes
    /\ UNCHANGED styleCallCount
    /\ UNCHANGED toastVars

\* this.renderCouncils() of a handler that leaves this.filters = f and has
\* set the current page to page
Render(page, f) ==
    /\ pagination' = renderCouncils([pagination EXCEPT !.currentPage = page],
                                    Len(getFilteredCouncils(councils, f)))
    /\ UNCHANGED <<innerWidth, currentView>>

\* SGARTracker.applyFilter(filterType): a quick-filter button is clicked
ApplyFilter(filterType) ==
    /\ EventFrame
    /\ ReplaceFilters(NewFilters(StatusOf(filterType), Str(filterType)))
    /\ Render(1, NewFilters(StatusOf(filterType), Str(filterType)))

\* the input listener of setupUnifiedSearch
SearchInput(text) ==
    /\ EventFrame
    /\ MutateFilters([filterObjs[filters] EXCEPT !.search = toLowerCase(text)],
                     TRUE)
    /\ Render(pagination.currentPage,
              [filterObjs[filters] EXCEPT !.search = toLowerCase(text)])

\* the change listener of the status dropdown (setupProfessionalFilters)
StatusFilterChange(value) ==
    /\ EventFrame
    /\ MutateFilters([filterObjs[filters] EXCEPT
                        !.status = IF value = "all" THEN <<>>
                                   ELSE StatusOf(value)],
                     FALSE)
    /\ Render(pagination.currentPage,
              [filterObjs[filters] EXCEPT
                 !.status = IF value = "all" THEN <<>> ELSE StatusOf(value)])

\* the change listener of the region dropdown (setupProfessionalFilters)
RegionFilterChange(value) ==
    /\ EventFrame
    /\ MutateFilters([filterObjs[filters] EXCEPT
                        !.region = IF value = "all" THEN <<>>
                                   ELSE RegionOf(value)],
                     FALSE)
    /\ Render(pagination.currentPage,
              [filterObjs[filters] EXCEPT
                 !.region = IF value = "all" THEN <<>> ELSE RegionOf(value)])

\* SGARTracker.selectCouncil(councilName)
SelectCouncil(councilName) ==
    /\ EventFrame
    /\ MutateFilters([filterObjs[filters] EXCEPT
                        !.search = toLowerCase(councilName)],
                     FALSE)
    /\ Render(pagination.currentPage,
              [filterObjs[filters] EXCEPT !.search = toLowerCase(councilName)])

\* SGARTracker.clearAllFilters
ClearAllFilters ==
    /\ EventFrame
    /\ ReplaceFilters(NewFilters(<<>>, JsNull))
    /\ Render(1, NewFilters(<<>>, JsNull))

\* SGARTracker.switchView(view): a view button is clicked; the list and the
\* grid are rendered, the map is not
SwitchView(view) ==
    /\ EventsServed
    /\ currentView' = view
    /\ pagination' =
         IF view = "map" THEN pagination
         ELSE renderCouncils(pagination,
                             Len(getFilteredCouncils(councils,
                                                     filterObjs[filters])))
    /\ UNCHANGED <<pc, innerWidth, lastCall, lastStyle>>
    /\ UNCHANGED trackerVars
    /\ UNCHANGED mapVars
    /\ UNCHANGED probes
    /\ UNCHANGED styleCallCount
    /\ UNCHANGED toastVars

\* the resize listener of the window
Resize(width) ==
    /\ EventsServed
    /\ innerWidth' = width
    /\ pagination' =
         LET resized == [pagination EXCEPT
                           !.cardsPerPage = getCardsPerPage(width)]
         IN  IF currentView # "map"
             THEN renderCouncils(resized,
                                 Len(getFilteredCouncils(councils,
                                                         filterObjs[filters])))
             ELSE resized
    /\ UNCHANGED <<pc, currentView, lastCall, lastStyle>>
    /\ UNCHANGED trackerVars
    /\ UNCHANGED mapVars
    /\ UNCHANGED probes
    /\ UNCHANGED styleCallCount
    /\ UNCHANGED toastVars

\* a handler that assigns page to pagination.currentPage and renders
TurnTo(page) ==
    /\ EventsServed
    /\ pagination' =
         renderCouncils([pagination EXCEPT !.currentPage = page],
                        Len(getFilteredCouncils(councils, filterObjs[filters])))
    /\ UNCHANGED <<pc, innerWidth, currentView, lastCall, lastStyle>>
    /\ UNCHANGED trackerVars
    /\ UNCHANGED mapVars
    /\ UNCHANGED probes
    /\ UNCHANGED styleCallCount
    /\ UNCHANGED toastVars

\* the click listener of the prev-page button
PrevPage ==
    /\ pagination # JsNull
    /\ pagination.currentPage > 1
    /\ TurnTo(pagination.currentPage - 1)

\* the click listener of the next-page button
NextPage ==
    /\ pagination # JsNull
    /\ pagination.currentPage < pagination.totalPages
    /\ TurnTo(pagination.currentPage + 1)

\* SGARTracker.goToPage(page), page being an integer
GoToPage(page) ==
    /\ pagination # JsNull
    /\ page >= 1 /\ page <= pagination.totalPages
    /\ TurnTo(page)

(***************************************************************************)
(* Calls into the map                                                      *)
(***************************************************************************)
\* which step of findCouncilByName produces the result
StepOf(gisName, mapping) ==
    IF ~Truthy(gisName) THEN "guard"
    ELSE IF MappingHit(mapping, gisName.v) THEN "mapping"
    ELSE "fuzzy"

\* how often a call findCouncilByName(gisName) runs the loop that fills
\* reverseMapping: once whenever it gets past the guard with a mapping
ReverseBuilds(gisName, mapping) ==
    IF Truthy(gisName) /\ mapping # JsNull THEN 1 ELSE 0

\* variant: the call leaves this.councils in the opposite order
FindCouncilByName_Reorders(gisName) ==
    /\ EventsServed
    /\ lastCall' = [arg     |-> gisName,
                    at      |-> pc,
                    mapping |-> nameMapping,
                    step    |-> StepOf(gisName, nameMapping),
                    builds  |-> ReverseBuilds(gisName, nameMapping),
                    result  |-> findCouncilByName(gisName, councils,
                                                  nameMapping)]
    /\ councils' = [i \in 1..Len(councils) |-> councils[Len(councils) + 1 - i]]
    /\ UNCHANGED pc
    /\ UNCHANGED <<councilData, filterObjs, filters, mapController>>
    /\ UNCHANGED mapVars
    /\ UNCHANGED lastStyle
    /\ UNCHANGED probes
    /\ UNCHANGED styleCallCount
    /\ UNCHANGED pageVars
    /\ UNCHANGED toastVars

\* a call this.findCouncilByName(gisName): it assigns to no field
FindCouncilByName(gisName) ==
    /\ EventsServed
    /\ lastCall' = [arg     |-> gisName,
                    at      |-> pc,
                    mapping |-> nameMapping,
                    step    |-> StepOf(gisName, nameMapping),
                    builds  |-> ReverseBuilds(gisName, nameMapping),
                    result  |-> findCouncilByName(gisName, councils,
                                                  nameMapping)]
    /\ UNCHANGED pc
    /\ UNCHANGED trackerVars
    /\ UNCHANGED mapVars
    /\ UNCHANGED lastStyle
    /\ UNCHANGED probes
    /\ UNCHANGED styleCallCount
    /\ UNCHANGED pageVars
    /\ UNCHANGED toastVars

\* the style function of the LGA layer applied to a feature
LayerStyle(feature) ==
    IF lgaLayer.style = "filter"
    THEN FilterStyle(feature,
                     IF lgaLayer.filter = NoRef THEN JsNull
                     ELSE filterObjs[lgaLayer.filter],
                     councils, nameMapping)
    ELSE getLGAStyle(feature, councils, nameMapping)

\* how often the style function of the LGA layer runs getLGAStyle for the
\* feature, that is, by how much this.styleCallCount grows: the filter
\* style function calls it for a council that is found and not hidden
StyleCalls(feature) ==
    LET council == findCouncilByName(FeatureName(feature), councils,
                                     nameMapping)
        filter  == IF lgaLayer.filter = NoRef THEN JsNull
                   ELSE filterObjs[lgaLayer.filter]
    IN  IF lgaLayer.style # "filter" THEN 1
        ELSE IF NotFound(council) THEN 0
        ELSE IF StatusHides(filter, councils[council.i]) THEN 0
        ELSE 1

\* how often the style function of the LGA layer derives the reverse
\* index for the feature: once in its own findCouncilByName call and once
\* more in the call getLGAStyle makes
LayerBuilds(feature) ==
    ReverseBuilds(FeatureName(feature), nameMapping)
      * ((IF lgaLayer.style = "filter" THEN 1 ELSE 0) + StyleCalls(feature))

\* the number of getLGAStyle calls that are counted
MaxStyleCalls == 1

\* the renderer asks the LGA layer's style function for the style of the
\* feature k; one pass is recorded between two events (a pass recorded
\* over another one would reach the same states)
RenderFeature(k) ==
    /\ pc = "ready"
    /\ lastStyle = JsNull
    /\ lgaLayer # JsNull
    /\ k \in 1..Len(features)
    /\ styleCallCount + StyleCalls(features[k]) <= MaxStyleCalls
    /\ lastStyle' =
         [feature  |-> k,
          council  |-> findCouncilByName(FeatureName(features[k]),
                                         councils, nameMapping),
          filtered |-> lgaLayer.style = "filter",
          style    |-> LayerStyle(features[k]),
          builds   |-> LayerBuilds(features[k])]
    /\ styleCallCount' = styleCallCount + StyleCalls(features[k])
    /\ UNCHANGED pc
    /\ UNCHANGED trackerVars
    /\ UNCHANGED mapVars
    /\ UNCHANGED lastCall
    /\ UNCHANGED probes
    /\ UNCHANGED pageVars
    /\ UNCHANGED toastVars

(***************************************************************************)
(* Specifications                                                          *)
(***************************************************************************)
Startup ==
    \/ InitializeApp
    \/ \E doc \in MappingDocs : LoadNameMappingOk(doc)
    \/ \E why \in LoadFailures : LoadNameMappingFail(why)
    \/ MapInitResume
    \/ InitializeAppResume

\* findCouncilByName is given the name of the catalog's council i
ResolveCouncilName(i) ==
    /\ i \in 1..Len(councils)
    /\ FindCouncilByName(Str(councils[i].name))

\* start-up and name resolution
Next ==
    \/ Startup
    \/ \E gisName \in Candidates : FindCouncilByName(gisName)
    \/ \E i \in 1..Len(councils) : ResolveCouncilName(i)

Spec == Init /\ [][Next]_vars

\* start-up, the filter handlers and the style passes of the map
NextFilter ==
    \/ Startup
    \/ \E fs \in FeatureSets : BoundariesLoaded(fs)
    \/ BoundariesFailed
    \/ \E filterType \in FilterTypes : ApplyFilter(filterType)
    \/ \E text \in SearchTexts : SearchInput(text)
    \/ \E value \in FilterTypes : StatusFilterChange(value)
    \/ \E value \in RegionValues : RegionFilterChange(value)
    \/ \E councilName \in SelectNames : SelectCouncil(councilName)
    \/ ClearAllFilters
    \/ \E k \in 1..MaxFeatures : RenderFeature(k)

\* the filter handlers are explored on the alphabetical catalog
InitFilter == Init /\ councilData = DataAlphabetical

SpecFilter == InitFilter /\ [][NextFilter]_vars

(***************************************************************************)
(* Properties of the name resolution                                       *)
(***************************************************************************)
Called == lastCall # JsNull

\* the call was made with a non-empty string while a mapping was loaded
CalledWithMapping ==
    Called /\ Truthy(lastCall.arg) /\ lastCall.mapping # JsNull

\* the index of the first council whose name is id up to letter case, 0 if
\* the catalog has none
IndexOfId(cs, id) ==
    LET hits == {i \in 1..Len(cs) : toUpperCase(cs[i].name) = toUpperCase(id)}
    IN  IF hits = {} THEN 0 ELSE CHOOSE i \in hits : \A j \in hits : i <= j

\* the normalization of the specification: uppercase, trim, strip the
\* qualifier vocabulary, collapse whitespace
Normalize(s) == CleanName(trim(toUpperCase(s)), GisQualifiers)

\* equal, or one contains the other
NormalizedMatch(a, b) == a = b \/ includes(a, b) \/ includes(b, a)

\* C1: for every entry k -> v of the loaded mapping whose key k names a
\* council of the catalog up to letter case, findCouncilByName(v) returns
\* that council, never another one and never NotFound.
C1_MappedValueResolvesToKey ==
    CalledWithMapping =>
      \A n \in 1..Len(lastCall.mapping.entries) :
        LET k == lastCall.mapping.entries[n][1]
            v == lastCall.mapping.entries[n][2]
        IN  (lastCall.arg.v = v /\ IndexOfId(councils, k) # 0) =>
              /\ lastCall.result.t = "council"
              /\ toUpperCase(councils[lastCall.result.i].name) = toUpperCase(k)

C1_Witness ==
    /\ CalledWithMapping
    /\ councilData = DataAlphabetical
    /\ lastCall.mapping.entries = MappingDocumented
    /\ lastCall.arg = Str("Council of the City of Sydney")
    /\ lastCall.result = CouncilRef(5)

\* C2: when the call reaches the fuzzy step (no mapping, or no entry for
\* the candidate), it returns the first council in catalog order whose
\* normalized name equals the normalized candidate or contains it or is
\* contained in it, and NotFound exactly when there is none; "Lithgow City
\* Council" resolves to the council LITHGOW CITY.
C2_FuzzyReturnsFirstNormalizedMatch ==
    (Called /\ lastCall.step = "fuzzy") =>
      LET n == Normalize(lastCall.arg.v)
          M == {i \in 1..Len(councils) :
                  NormalizedMatch(Normalize(councils[i].name), n)}
      IN  /\ IF M = {} THEN NotFound(lastCall.result)
             ELSE lastCall.result =
                    CouncilRef(CHOOSE i \in M : \A j \in M : i <= j)
          /\ (lastCall.arg.v = "Lithgow City Council"
                /\ IndexOfId(councils, "LITHGOW CITY") # 0) =>
               lastCall.result = CouncilRef(IndexOfId(councils, "LITHGOW CITY"))

C2_Witness ==
    /\ Called
    /\ lastCall.step = "fuzzy"
    /\ lastCall.mapping = JsNull
    /\ lastCall.arg = Str("Lithgow City Council")
    /\ lastCall.result.t = "council"
    /\ councils[lastCall.result.i].name = "Lithgow City"

\* C3: when the candidate hits the reverse mapping but the mapped id is in
\* the catalog neither exactly nor with whitespace collapsed, the call
\* falls through to the fuzzy step and returns what the fuzzy step finds.
C3_MappingMissFallsThrough ==
    (Called /\ lastCall.step = "mapping"
       /\ NotFound(MappedMatch(councils,
             ReverseLookup(lastCall.mapping.entries, lastCall.arg.v).v))) =>
      lastCall.result = FuzzyMatch(councils, lastCall.arg.v)

\* C4 as stated: a candidate that differs from a mapping value only in
\* letter case or in surrounding whitespace resolves to the same council
\* as the mapping value itself.
C4_VariantResolvesLikeMappingValue ==
    CalledWithMapping =>
      \A n \in 1..Len(lastCall.mapping.entries) :
        LET v == lastCall.mapping.entries[n][2]
        IN  trim(toUpperCase(lastCall.arg.v)) = trim(toUpperCase(v)) =>
              lastCall.result =
                findCouncilByName(Str(v), councils, lastCall.mapping)

\* C4 amended: the exact-mapping step compares the candidate with the
\* mapping values as they are; it is taken exactly when the candidate is
\* identical to a mapping value, and a candidate that differs from every
\* value, be it only in letter case or surrounding whitespace, is resolved
\* by the fuzzy step alone.
C4_MappingLookupIsExact ==
    CalledWithMapping =>
      LET values == {lastCall.mapping.entries[n][2] :
                       n \in 1..Len(lastCall.mapping.entries)}
      IN  /\ (lastCall.step = "mapping") <=> (lastCall.arg.v \in values)
          /\ lastCall.arg.v \notin values =>
               lastCall.result = FuzzyMatch(councils, lastCall.arg.v)

C4_Witness ==
    /\ CalledWithMapping
    /\ councilData = DataAlphabetical
    /\ lastCall.mapping.entries = MappingDocumented
    /\ lastCall.arg = Str("LIVERPOOL PLAINS SHIRE COUNCIL")
    /\ lastCall.step = "fuzzy"
    /\ lastCall.result = CouncilRef(2)

\* C5: a call with null, undefined or the empty string returns null at
\* once, throws nothing and changes no field, mapping loaded or not.
C5_FalsyNameReturnsNull ==
    /\ [](Called /\ ~Truthy(lastCall.arg) =>
            lastCall.result = JsNull /\ lastCall.step = "guard")
    /\ [][(\E g \in {JsNull, JsUndefined, Str("")} : FindCouncilByName(g)) =>
            UNCHANGED <<pc, trackerVars, mapVars, lastStyle>>]_vars

C5_Witness ==
    /\ Called
    /\ lastCall.arg = JsUndefined
    /\ lastCall.mapping # JsNull
    /\ lastCall.result = JsNull

\* C6: when the load of the name mapping fails, nameMapping stays absent,
\* MapController.init goes on to create the LGA layer and initializeApp
\* completes, and every call made afterwards is answered by the guard or
\* the fuzzy step and throws nothing.
C6_FailedLoadDegradesToFuzzy ==
    loadOutcome = "failed" =>
      /\ nameMapping = JsNull
      /\ pc \in {"mappingDone", "mapInitDone", "ready"}
      /\ pc = "mappingDone" => ENABLED MapInitResume
      /\ pc = "mapInitDone" => lgaLayer # JsNull /\ ENABLED InitializeAppResume
      /\ pc = "ready" => lgaLayer # JsNull /\ mapController # JsNull
      /\ (Called /\ lastCall.at = "ready") =>
           /\ lastCall.step \in {"guard", "fuzzy"}
           /\ lastCall.result # JsThrow
           /\ Truthy(lastCall.arg) =>
                lastCall.result = FuzzyMatch(councils, lastCall.arg.v)

C6_Witness ==
    /\ loadOutcome = "failed"
    /\ pc = "ready"
    /\ Called
    /\ lastCall.at = "ready"
    /\ lastCall.arg = Str("Liverpool Plains Shire Council")
    /\ lastCall.step = "fuzzy"
    /\ lastCall.result.t = "council"

\* C7: the steps run in order: a candidate with a mapping entry whose id is
\* in the catalog resolves to the mapped council, also when the fuzzy step
\* would pick another council; with SYDNEY -> "Council of the City of
\* Sydney" that candidate yields the SYDNEY record.
C7_MappingStepWinsOverFuzzy ==
    (Called /\ lastCall.step = "mapping") =>
      LET ourName == ReverseLookup(lastCall.mapping.entries, lastCall.arg.v).v
          mapped  == IndexOfId(councils, ourName)
          fuzzy   == FuzzyMatch(councils, lastCall.arg.v)
      IN  /\ mapped # 0 =>
               /\ lastCall.result = CouncilRef(mapped)
               /\ fuzzy # CouncilRef(mapped) => lastCall.result # fuzzy
          /\ (lastCall.arg.v = "Council of the City of Sydney"
                /\ toUpperCase(ourName) = "SYDNEY" /\ mapped # 0) =>
               toUpperCase(councils[lastCall.result.i].name) = "SYDNEY"

C7_Witness ==
    /\ Called
    /\ lastCall.step = "mapping"
    /\ councilData = DataAlphabetical
    /\ lastCall.arg = Str("Liverpool Plains Shire Council")
    /\ lastCall.result = CouncilRef(3)
    /\ FuzzyMatch(councils, lastCall.arg.v) = CouncilRef(2)

(***************************************************************************)
(* Properties of the filter and the style passes                           *)
(***************************************************************************)
\* a style pass of the function installed by MapController.applyFilter over
\* a feature whose name resolves to a council
FilteredPassOverCouncil ==
    /\ lastStyle # JsNull
    /\ lastStyle.filtered
    /\ lastStyle.council.t = "council"

\* the constraints a filter reference stands for; null constrains nothing
CriteriaOf(ref, objs) ==
    IF ref = NoRef THEN Criteria(NewFilters(<<>>, JsNull))
    ELSE Criteria(objs[ref])

\* the constraints the style function of the LGA layer reads, "none" while
\* the layer has no filter style function
StyleCriteria(layer, objs) ==
    IF layer # JsNull /\ layer.style = "filter"
    THEN [installed |-> TRUE, criteria |-> CriteriaOf(layer.filter, objs)]
    ELSE [installed |-> FALSE]

\* an event handler of the tracker that changes the filter criteria
FilterEvent ==
    \/ \E filterType \in FilterTypes : ApplyFilter(filterType)
    \/ \E text \in SearchTexts : SearchInput(text)
    \/ \E value \in FilterTypes : StatusFilterChange(value)
    \/ \E value \in RegionValues : RegionFilterChange(value)
    \/ \E councilName \in SelectNames : SelectCouncil(councilName)
    \/ ClearAllFilters

\* an event handler that calls MapController.applyFilter
MapApplyFilterEvent ==
    /\ mapController # JsNull
    /\ \/ \E filterType \in FilterTypes : ApplyFilter(filterType)
       \/ \E text \in SearchTexts : SearchInput(text)
       \/ ClearAllFilters

\* C8: in a style pass of the installed filter style function, a feature
\* whose council resolves but does not pass the criteria the function
\* reads (status, region or search, as getFilteredCouncils tests them) gets
\* the empty style.
C8_ExcludedCouncilIsInvisible ==
    (FilteredPassOverCouncil
       /\ ~FilterTest(councils[lastStyle.council.i],
                      CriteriaOf(lgaLayer.filter, filterObjs))) =>
      lastStyle.style = EmptyStyle

\* C9: once the tracker is linked to the map, every event handler that
\* changes the filter criteria leaves MapController.currentFilter with the
\* same status, region and search constraints as SGARTracker.filters.
C9_FilterEventsReachTheMap ==
    [][(pc = "ready" /\ FilterEvent) =>
         CriteriaOf(currentFilter', filterObjs')
           = CriteriaOf(filters', filterObjs')]_vars

\* C10: the constraints the installed style function reads change only in
\* a handler that calls MapController.applyFilter; no other step alters
\* them.
C10_InstalledCriteriaAreAValue ==
    [][~MapApplyFilterEvent =>
         StyleCriteria(lgaLayer', filterObjs')
           = StyleCriteria(lgaLayer, filterObjs)]_vars

\* a style pass was recorded
StylePass == lastStyle # JsNull

\* the recorded pass was over a feature whose name resolves to a council
PassOverCouncil == StylePass /\ lastStyle.council.t = "council"

\* the criteria the recorded pass was subject to: those the filter style
\* function reads, none while getLGAStyle is the layer's style
PassCriteria ==
    IF lastStyle.filtered THEN CriteriaOf(lgaLayer.filter, filterObjs)
    ELSE CriteriaOf(NoRef, filterObjs)

\* C11: a feature whose name resolves to no council gets the style that
\* getLGAStyle gives it, a fill without border, also from the style
\* function installed by applyFilter.
C11_UnmappedStyleIsFixed ==
    (StylePass /\ NotFound(lastStyle.council)) =>
      /\ lastStyle.style
           = getLGAStyle(features[lastStyle.feature], councils, nameMapping)
      /\ lastStyle.style.stroke = NoPaint

\* C12: the style of a pass is told apart from the styles of the other
\* outcomes in the same state: the invisible style of a council hidden by
\* the filter differs from the style of every feature that resolves to no
\* council, and the style of a feature that resolves to no council differs
\* from the style of every feature whose council has status Unknown.
C12_StyleOutcomesAreDistinct ==
    StylePass =>
      \A j \in 1..Len(features) :
        LET other      == findCouncilByName(FeatureName(features[j]),
                                            councils, nameMapping)
            otherStyle == LayerStyle(features[j])
        IN  /\ (PassOverCouncil /\ lastStyle.filtered
                  /\ StatusHides(PassCriteria,
                                 councils[lastStyle.council.i])
                  /\ NotFound(other)) =>
                 lastStyle.style # otherStyle
            /\ (NotFound(lastStyle.council) /\ ~NotFound(other)
                  /\ councils[other.i].status = "Unknown") =>
                 lastStyle.style # otherStyle
            /\ (PassOverCouncil
                  /\ councils[lastStyle.council.i].status = "Unknown"
                  /\ NotFound(other)) =>
                 lastStyle.style # otherStyle

C12_Witness ==
    /\ PassOverCouncil
    /\ lastStyle.filtered
    /\ lastStyle.style = EmptyStyle
    /\ councils[lastStyle.council.i].status = "Unknown"
    /\ \E j \in 1..Len(features) : features[j] = [name |-> Str("Unincorporated NSW")]

\* C13: a feature whose council resolves and passes the criteria of the
\* pass gets the non-hover fill of the council's status and no border; the
\* feature lga_name_2021 = "Council of the City of Sydney", mapped to the
\* council SYDNEY with status Yes, gets the red fill.
C13_PassingCouncilGetsStatusStyle ==
    (PassOverCouncil
       /\ FilterTest(councils[lastStyle.council.i], PassCriteria)) =>
      LET council == councils[lastStyle.council.i]
      IN  /\ lastStyle.style
               = Style(getStatusColors(council.status, FALSE).fill, NoPaint)
          /\ council.status = "Yes" =>
               lastStyle.style.fill = "rgba(220, 53, 69, 0.7)"
          /\ council.status = "No" =>
               lastStyle.style.fill = "rgba(40, 167, 69, 0.7)"
          /\ council.status = "Unknown" =>
               lastStyle.style.fill = "rgba(108, 117, 125, 0.6)"

C13_Witness ==
    /\ PassOverCouncil
    /\ lastStyle.filtered
    /\ PassCriteria = CriteriaOf(NoRef, filterObjs)
    /\ nameMapping # JsNull
    /\ nameMapping.entries = MappingDocumented
    /\ features[lastStyle.feature]
         = [lga_name_2021 |-> Str("Council of the City of Sydney")]
    /\ councils[lastStyle.council.i].name = "Sydney"
    /\ councils[lastStyle.council.i].status = "Yes"
    /\ lastStyle.style = Style("rgba(220, 53, 69, 0.7)", NoPaint)

(***************************************************************************)
(* Functions applied to given arguments                                    *)
(***************************************************************************)
\* the status values getStatusColors is applied to
StatusInputs == {"Yes", "No", "Unknown", "", "yes", "Pending"}

\* getStatusColors(status, isHover) is called
GetStatusColors(status, isHover) ==
    /\ lastApply' = [fn     |-> "getStatusColors",
                     status |-> status,
                     hover  |-> isHover,
                     result |-> getStatusColors(status, isHover)]
    /\ UNCHANGED <<pc, lastCall, lastStyle, earlierCall>>
    /\ UNCHANGED styleCallCount
    /\ UNCHANGED pageVars
    /\ UNCHANGED toastVars
    /\ UNCHANGED trackerVars
    /\ UNCHANGED mapVars

\* the position of the last comma of s at or before i, 0 if there is none
RECURSIVE LastComma(_, _)
LastComma(s, i) ==
    IF i = 0 THEN 0
    ELSE IF CharAt(s, i) = "," THEN i
    ELSE LastComma(s, i - 1)

\* the colour components of "rgba(r, g, b, a)": the text "rgba(r, g, b"
RgbOf(color) == SubSeq(color, 1, LastComma(color, Len(color)) - 1)

\* the value of a decimal digit
DigitOf(ch) == CHOOSE d \in 0..9 : CharAt(DigitChars, d + 1) = ch

\* the alpha of "rgba(r, g, b, a)" in hundredths, a being "0.d", "0.dd" or
\* "1.0"
AlphaOf(color) ==
    LET a == SubSeq(color, LastComma(color, Len(color)) + 2, Len(color) - 1)
    IN  100 * DigitOf(CharAt(a, 1)) + 10 * DigitOf(CharAt(a, 3))
          + (IF Len(a) >= 4 THEN DigitOf(CharAt(a, 4)) ELSE 0)

\* C14: getStatusColors is a fixed table: "Yes" gives the red fill, "No"
\* the green fill, "Unknown" and every other value the gray fill; the
\* hover fill and the non-hover fill of a status have the same colour
\* components and the hover alpha is the non-hover alpha plus 0.1.
C14_StatusColorsAreAFixedTable ==
    (lastApply # JsNull /\ lastApply.fn = "getStatusColors") =>
      LET base  == getStatusColors(lastApply.status, FALSE).fill
          hover == getStatusColors(lastApply.status, TRUE).fill
      IN  /\ RgbOf(lastApply.result.fill) =
               (CASE lastApply.status = "Yes" -> "rgba(220, 53, 69"
                  [] lastApply.status = "No" -> "rgba(40, 167, 69"
                  [] OTHER -> "rgba(108, 117, 125")
          /\ lastApply.result.fill = IF lastApply.hover THEN hover ELSE base
          /\ RgbOf(hover) = RgbOf(base)
          /\ AlphaOf(hover) = AlphaOf(base) + 10

C14_Witness ==
    /\ lastApply # JsNull
    /\ lastApply.fn = "getStatusColors"
    /\ lastApply.status = "Pending"
    /\ lastApply.hover
    /\ lastApply.result.fill = "rgba(108, 117, 125, 0.7)"

\* the criteria getFilteredCouncils is applied with
StatusSets == {<<>>, <<"No">>, <<"Yes", "Unknown">>}

RegionSets == {<<>>, <<"Metro West">>, <<"Metro South", "Northern Inland">>}

SearchProbes == {"", "Parks", "sydney metro", "PLAINS"}

CriteriaInputs ==
    {[status |-> st, region |-> rg, search |-> q, quickFilter |-> JsNull] :
       st \in StatusSets, rg \in RegionSets, q \in SearchProbes}

\* getFilteredCouncils() is called while this.filters is f
GetFilteredCouncils(f) ==
    /\ councils # <<>>
    /\ lastApply' = [fn       |-> "getFilteredCouncils",
                     criteria |-> f,
                     result   |-> getFilteredCouncils(councils, f)]
    /\ UNCHANGED <<pc, lastCall, lastStyle, earlierCall>>
    /\ UNCHANGED styleCallCount
    /\ UNCHANGED pageVars
    /\ UNCHANGED toastVars
    /\ UNCHANGED trackerVars
    /\ UNCHANGED mapVars

\* getFilteredCouncils was applied
Filtered == lastApply # JsNull /\ lastApply.fn = "getFilteredCouncils"

\* is the council an element of the list
Listed(council, list) == \E k \in 1..Len(list) : list[k] = council

\* the three constraints of the filter, each on its own
StatusConstraint(council, f) ==
    f.status = <<>> \/ council.status \in {f.status[k] : k \in 1..Len(f.status)}

RegionConstraint(council, f) ==
    f.region = <<>> \/ council.region \in {f.region[k] : k \in 1..Len(f.region)}

SearchConstraint(council, f) ==
    \/ f.search = ""
    \/ \E field \in {council.name, council.region, council.notes} :
         includes(toLowerCase(field), toLowerCase(f.search))

\* C15: the list getFilteredCouncils returns holds exactly the councils
\* that satisfy the status constraint and the region constraint and the
\* search constraint; a council with status "Yes" is not listed when the
\* status array is ["No"], whatever the region array and the search text.
C15_FilterIsTheConjunction ==
    Filtered =>
      \A i \in 1..Len(councils) :
        /\ Listed(councils[i], lastApply.result) <=>
             /\ StatusConstraint(councils[i], lastApply.criteria)
             /\ RegionConstraint(councils[i], lastApply.criteria)
             /\ SearchConstraint(councils[i], lastApply.criteria)
        /\ (councils[i].status = "Yes"
              /\ lastApply.criteria.status = <<"No">>) =>
             ~Listed(councils[i], lastApply.result)

C15_Witness ==
    /\ Filtered
    /\ councilData = DataAlphabetical
    /\ lastApply.criteria.status = <<"Yes", "Unknown">>
    /\ lastApply.criteria.region = <<"Metro West">>
    /\ lastApply.criteria.search = "Parks"
    /\ Len(lastApply.result) = 1
    /\ lastApply.result[1].name = "Liverpool"

\* C17: with a search text and no other constraint, the councils listed
\* are exactly those for which the lowercased search text is a substring
\* of the lowercased text name + " " + region + " " + notes.
C17_SearchMatchesTheConcatenation ==
    (Filtered /\ lastApply.criteria.search # ""
       /\ lastApply.criteria.status = <<>>
       /\ lastApply.criteria.region = <<>>) =>
      \A i \in 1..Len(councils) :
        Listed(councils[i], lastApply.result) <=>
          includes(toLowerCase(councils[i].name \o " " \o councils[i].region
                                 \o " " \o councils[i].notes),
                   toLowerCase(lastApply.criteria.search))

\* C16: with no-op criteria (no status, no region, empty search text)
\* getFilteredCouncils returns the whole catalog in catalog order; this is
\* so in every state in which this.filters is no-op, and in particular in
\* the state the constructor and clearAllFilters leave.
C16_NoOpCriteriaAcceptAll ==
    /\ [](filters # NoRef =>
            (Criteria(filterObjs[filters]) = Criteria(NewFilters(<<>>, JsNull))
               => getFilteredCouncils(councils, filterObjs[filters]) = councils))
    /\ [][(InitializeApp \/ ClearAllFilters) =>
            /\ Criteria(filterObjs'[filters']) = Criteria(NewFilters(<<>>, JsNull))
            /\ getFilteredCouncils(councils', filterObjs'[filters']) = councils']_vars

\* the state clearAllFilters leaves while the map shows the boundaries: a
\* filter object with no constraint that the style function reads as well
C16_Witness ==
    /\ pc = "ready"
    /\ filters # NoRef
    /\ filterObjs[filters] = NewFilters(<<>>, JsNull)
    /\ currentFilter = filters
    /\ LayerRefs(lgaLayer) = {filters}
    /\ Len(councils) = 5
    /\ getFilteredCouncils(councils, filterObjs[filters]) = councils

\* the documents the start-up is given, with and without invalid statuses
CatalogInputs ==
    CouncilDataDocs \cup {DataInvalidStatus, DataEmptyStatus, DataCaseKeys}

\* C18: when a record of the council data has a status other than "Yes",
\* "No" and "Unknown", a validation error is reported and the catalog is
\* not constructed: this.councils never holds a council of that document.
C18_InvalidStatusAbortsLoad ==
    (/\ pc # "loading"
     /\ \E i \in 1..Len(councilData) :
          councilData[i][2].sgars \notin validStatuses) =>
      /\ validationErrors(councilData) # <<>>
      /\ councils = <<>>
      /\ \A i \in 1..Len(councils) : councils[i].status \in validStatuses

\* a caller of findCouncilByName (getLGAStyle, handleMapClick, the loader's
\* report, the filter style function) resolves the name of the feature k
ResolveFeature(k) ==
    /\ k \in 1..Len(features)
    /\ FindCouncilByName(FeatureName(features[k]))

\* the caller of the last findCouncilByName call keeps what it returned
RememberCall ==
    /\ lastCall # JsNull
    /\ earlierCall' = lastCall
    /\ UNCHANGED <<pc, lastCall, lastStyle, lastApply>>
    /\ UNCHANGED styleCallCount
    /\ UNCHANGED pageVars
    /\ UNCHANGED toastVars
    /\ UNCHANGED trackerVars
    /\ UNCHANGED mapVars

\* name resolutions of the loaded features, with filter events and style
\* passes between them
NextRepeat ==
    \/ Startup
    \/ \E fs \in FeatureSets : BoundariesLoaded(fs)
    \/ BoundariesFailed
    \/ \E k \in 1..MaxFeatures : ResolveFeature(k)
    \/ RememberCall
    \/ \E filterType \in FilterTypes : ApplyFilter(filterType)
    \/ \E text \in SearchTexts : SearchInput(text)
    \/ ClearAllFilters
    \/ \E k \in 1..MaxFeatures : RenderFeature(k)

SpecRepeat == InitFilter /\ [][NextRepeat]_vars

NameInputs ==
    GisNames \cup {"Lithgow City", "Norfolk Island Regional",
                   "The Hills Shire", "City of Parramatta",
                   "Municipality Council of Kiama"}

\* the normalization of the GIS name: normalizedGisName and cleanGisName
NormalizeGisName(s) ==
    /\ lastApply' = [fn |-> "cleanGisName", arg |-> s,
                     result |-> Normalize(s)]
    /\ UNCHANGED <<pc, lastCall, lastStyle, earlierCall>>
    /\ UNCHANGED styleCallCount
    /\ UNCHANGED pageVars
    /\ UNCHANGED toastVars
    /\ UNCHANGED trackerVars
    /\ UNCHANGED mapVars

\* the normalization of a council name: councilName and cleanCouncilName
NormalizeCouncilName(s) ==
    /\ lastApply' = [fn |-> "cleanCouncilName", arg |-> s,
                     result |-> cleanCouncilName(toUpperCase(s))]
    /\ UNCHANGED <<pc, lastCall, lastStyle, earlierCall>>
    /\ UNCHANGED styleCallCount
    /\ UNCHANGED pageVars
    /\ UNCHANGED toastVars
    /\ UNCHANGED trackerVars
    /\ UNCHANGED mapVars

\* C20: the normalizations of the fuzzy step are idempotent: applied to
\* their own result they return it unchanged.
C20_NormalizationIsIdempotent ==
    /\ (lastApply # JsNull /\ lastApply.fn = "cleanGisName") =>
         Normalize(lastApply.result) = lastApply.result
    /\ (lastApply # JsNull /\ lastApply.fn = "cleanCouncilName") =>
         cleanCouncilName(toUpperCase(lastApply.result)) = lastApply.result

\* C21: no two records of this.councils have the same name, whatever the
\* council data document, also when two of its keys differ in letter case
\* only.
C21_CouncilNamesAreUnique ==
    \A i, j \in 1..Len(councils) :
      i # j => councils[i].name # councils[j].name

\* the property bags the name expression is applied to
FeatureInputs ==
    {FeaturesNSW[k] : k \in 1..Len(FeaturesNSW)} \cup
    { [lga_name |-> Str("Ballina"), lga_name_2021 |-> Str("Ballina Shire")],
      [NAME |-> Str("BYRON"), name |-> Str("")],
      [lga_name_2021 |-> JsNull, lgaName |-> Str("Kiama"),
       LGA_NAM |-> Str("KIAMA")],
      [LGA_NAME22 |-> Str("Hay"), lga_name16 |-> Str("Hay Shire"),
       lga_nam11 |-> Str("")],
      [LGA_NAM |-> Str("Junee")],
      [lga_code |-> Str("10050"), ste_name |-> Str("New South Wales")] }

\* the expression feature.get('lga_name_2021') || ... is evaluated
GetFeatureName(feature) ==
    /\ lastApply' = [fn |-> "featureName", feature |-> feature,
                     result |-> FeatureName(feature)]
    /\ UNCHANGED <<pc, lastCall, lastStyle, earlierCall>>
    /\ UNCHANGED styleCallCount
    /\ UNCHANGED pageVars
    /\ UNCHANGED toastVars
    /\ UNCHANGED trackerVars
    /\ UNCHANGED mapVars

\* C22: the candidate name of a feature is the value of the first of the
\* properties lga_name_2021, lga_name, LGA_NAME, name, NAME, lga_nam11,
\* lga_name16, LGA_NAME22, lgaName, LGA_NAM that holds a non-empty string;
\* every place that resolves a feature evaluates this one expression.
C22_FirstNonEmptyPropertyWins ==
    (lastApply # JsNull /\ lastApply.fn = "featureName") =>
      LET order == <<"lga_name_2021", "lga_name", "LGA_NAME", "name", "NAME",
                     "lga_nam11", "lga_name16", "LGA_NAME22", "lgaName",
                     "LGA_NAM">>
          holds == {k \in 1..Len(order) :
                      /\ order[k] \in DOMAIN lastApply.feature
                      /\ lastApply.feature[order[k]].t = "string"
                      /\ lastApply.feature[order[k]].v # ""}
      IN  /\ holds # {} =>
                \E k \in holds :
                  /\ \A j \in holds : k <= j
                  /\ lastApply.result = lastApply.feature[order[k]]
          /\ holds = {} => ~Truthy(lastApply.result)

C22_Witness ==
    /\ lastApply # JsNull /\ lastApply.fn = "featureName"
    /\ lastApply.feature = [NAME |-> Str("BYRON"), name |-> Str("")]
    /\ lastApply.result = Str("BYRON")

\* the functions of the tracker and the map applied to given arguments
NextFunctions ==
    \/ InitializeApp
    \/ \E status \in StatusInputs, isHover \in BOOLEAN :
         GetStatusColors(status, isHover)
    \/ \E f \in CriteriaInputs : GetFilteredCouncils(f)
    \/ \E s \in NameInputs : NormalizeGisName(s)
    \/ \E s \in NameInputs : NormalizeCouncilName(s)
    \/ \E feature \in FeatureInputs : GetFeatureName(feature)

InitFunctions ==
    /\ councilData \in CatalogInputs
    /\ innerWidth = DesktopWidth
    /\ Unconstructed

SpecFunctions == InitFunctions /\ [][NextFunctions]_vars

(***************************************************************************)
(* Properties of the boundary load, the style passes and the start-up      *)
(***************************************************************************)
\* the boundary load has ended without features: it failed, or the source
\* delivered an empty collection
NoGeometry ==
    \/ boundaries = "failed"
    \/ boundaries = "loaded" /\ features = FeaturesNone

\* C23: a boundary load that fails or delivers zero features raises no
\* exception (the application stays ready), leaves the name mapping and
\* the catalog as they are, and a later MapController.applyFilter call
\* still stores the filter and installs its style function.
C23_GeometryFailureIsHarmless ==
    /\ [][(BoundariesFailed \/ BoundariesLoaded(FeaturesNone)) =>
            /\ pc' = "ready"
            /\ UNCHANGED <<nameMapping, loadOutcome, councils, lgaLayer>>]_vars
    /\ [][(NoGeometry /\ MapApplyFilterEvent) =>
            /\ pc' = "ready"
            /\ currentFilter' = filters'
            /\ lgaLayer' = [style |-> "filter", filter |-> filters']
            /\ UNCHANGED <<nameMapping, loadOutcome, councils>>]_vars

\* the source delivered no feature and the filter "sgar-free" is installed
C23_Witness ==
    /\ pc = "ready"
    /\ boundaries = "loaded" /\ features = FeaturesNone
    /\ nameMapping # JsNull
    /\ Len(councils) = 5
    /\ currentFilter = filters
    /\ lgaLayer = [style |-> "filter", filter |-> filters]
    /\ filterObjs[filters].status = <<"No">>

\* C24: a style pass (getLGAStyle, or the style function installed by
\* applyFilter) changes nothing: the features, the catalog, the name
\* mapping, the current filter, the layer and every other field of the
\* MapController, the call counter included, are as before.
C24_StyleIsSideEffectFree ==
    [][(\E k \in 1..MaxFeatures : RenderFeature(k)) =>
         /\ UNCHANGED <<features, councils, nameMapping, currentFilter,
                        lgaLayer>>
         /\ styleCallCount' = styleCallCount]_vars

\* how often the reverse index was derived in the recorded calls: the
\* remembered findCouncilByName call, the last one and the last style pass
Derivations ==
    (IF earlierCall # JsNull THEN earlierCall.builds ELSE 0)
      + (IF Called THEN lastCall.builds ELSE 0)
      + (IF StylePass THEN lastStyle.builds ELSE 0)

\* C25: the reverse index is derived from the name mapping at most once:
\* over the recorded findCouncilByName calls the number of derivations
\* does not exceed one.
C25_ReverseIndexIsDerivedOnce == Derivations <= 1

\* C28: when initializeApp completes (setMapController has linked the
\* tracker to the map), MapController.currentFilter has the same status,
\* region and search constraints as SGARTracker.filters, whatever events
\* were served while MapController.init was waiting.
C28_MapAgreesWhenStartupCompletes ==
    [][InitializeAppResume =>
         CriteriaOf(currentFilter', filterObjs')
           = CriteriaOf(filters', filterObjs')]_vars

(***************************************************************************)
(* Properties of the fuzzy step                                            *)
(***************************************************************************)
\* the call was made without a mapping, with the name of a catalog council
CalledWithCouncilName ==
    /\ Called
    /\ lastCall.mapping = JsNull
    /\ Truthy(lastCall.arg)
    /\ \E i \in 1..Len(councils) : councils[i].name = lastCall.arg.v

\* C26: without a name mapping, findCouncilByName given the name of a
\* catalog council returns that council, also when a council earlier in
\* the catalog has a normalized name contained in it.
C26_OwnNameResolvesToItself ==
    CalledWithCouncilName =>
      /\ lastCall.result.t = "council"
      /\ councils[lastCall.result.i].name = lastCall.arg.v

\* C27: a non-empty candidate name whose normalized form is the empty
\* string (only qualifier words, as "City Council") resolves to no council.
C27_EmptyNormalizedNameIsNotFound ==
    (/\ Called
     /\ Truthy(lastCall.arg)
     /\ lastCall.step = "fuzzy"
     /\ Normalize(lastCall.arg.v) = "") =>
      NotFound(lastCall.result)

(***************************************************************************)
(* Pagination: SGARTracker.renderCouncils and the handlers that call it    *)
(***************************************************************************)
\* names of the region table, enough for three pages of twelve cards
PagedNames ==
    <<"ALBURY CITY", "BALLINA", "BAYSIDE", "BLACKTOWN", "BLAYNEY", "BOGAN",
      "BOURKE", "BURWOOD", "BYRON", "CAMDEN", "COBAR", "COWRA", "DUNGOG",
      "FORBES", "GWYDIR", "HORNSBY", "KIAMA", "KYOGLE", "LACHLAN",
      "LISMORE", "MOSMAN", "OBERON", "ORANGE", "PARKES", "RYDE", "TWEED">>

\* a council data document with the three statuses in turn
DataPaged ==
    [i \in 1..Len(PagedNames) |->
       <<PagedNames[i],
         CASE i % 3 = 1 -> Data("Yes", "Uses SGARs")
           [] i % 3 = 2 -> Data("No", "SGAR-free")
           [] OTHER -> Data("Unknown", "No response")>>]

\* the data-view values of the view buttons
Views == {"map", "grid", "list"}

\* the page numbers goToPage is called with: parseInt of a data-page
\* attribute, also of a button rendered before the list shrank
PageInputs == 0..4

\* a handler that calls this.renderCouncils()
RenderEvent ==
    \/ FilterEvent
    \/ \E view \in Views \ {"map"} : SwitchView(view)
    \/ currentView # "map" /\ \E width \in Widths : Resize(width)
    \/ PrevPage
    \/ NextPage
    \/ \E page \in PageInputs : GoToPage(page)

\* the pagination pag is valid for n filtered councils
PagesValid(pag, n) ==
    /\ pag.currentPage \in Int
    /\ 1 <= pag.currentPage
    /\ pag.currentPage <= (IF pag.totalPages > 1 THEN pag.totalPages ELSE 1)
    /\ pag.totalPages \in Nat
    /\ pag.totalPages * pag.cardsPerPage >= n
    /\ (pag.totalPages - 1) * pag.cardsPerPage < n

\* C30: after every handler that calls renderCouncils (filter changes,
\* searches, view switches, resizes, prev/next clicks, goToPage), the
\* current page is an integer between 1 and max(1, totalPages), and
\* totalPages is the number of filtered councils divided by cardsPerPage,
\* rounded up.
C30_CurrentPageIsInRange ==
    [][RenderEvent =>
         PagesValid(pagination',
                    Len(getFilteredCouncils(councils',
                                            filterObjs'[filters'])))]_vars

\* the third and last page of the grid on a narrow window
C30_Witness ==
    /\ pagination # JsNull
    /\ currentView = "grid"
    /\ innerWidth = 400
    /\ pagination.cardsPerPage = 12
    /\ pagination.currentPage = 3
    /\ pagination.totalPages = 3
    /\ Len(getFilteredCouncils(councils, filterObjs[filters])) = 26

\* the tracker's handlers that render the cards, on a catalog of 26
NextPages ==
    \/ InitializeApp
    \/ \E filterType \in FilterTypes : ApplyFilter(filterType)
    \/ \E text \in SearchTexts : SearchInput(text)
    \/ \E value \in FilterTypes : StatusFilterChange(value)
    \/ \E value \in RegionValues : RegionFilterChange(value)
    \/ ClearAllFilters
    \/ \E view \in Views : SwitchView(view)
    \/ \E width \in Widths : Resize(width)
    \/ PrevPage
    \/ NextPage
    \/ \E page \in PageInputs : GoToPage(page)

InitPages ==
    /\ councilData = DataPaged
    /\ innerWidth \in Widths
    /\ Unconstructed

SpecPages == InitPages /\ [][NextPages]_vars

(***************************************************************************)
(* Toasts: UIController.showToast, processToastQueue, displayToast,        *)
(* dismissToast                                                            *)
(***************************************************************************)
\* this.maxToasts
maxToasts == 3

\* the number of showToast calls
MaxToastsShown == 4

\* the number of removal timers a close click may add to
MaxRemovals == 2

\* the durations showToast is called with
Durations == {2000, 4000}

\* the toast fields of the UIController and the pending auto-dismiss timers
ToastState ==
    [queue     |-> toastQueue,
     active    |-> activeToasts,
     container |-> toastContainer,
     timers    |-> autoTimers]

\* displayToast(toast): the element is appended to the container, the
\* toast is pushed to activeToasts and its auto-dismiss timer is set
displayToast(st, toast) ==
    [st EXCEPT !.active = Append(@, toast),
               !.container = @ \cup {toast.id},
               !.timers = IF toast.duration > 0 THEN Append(@, toast) ELSE @]

\* processToastQueue
processToastQueue(st) ==
    IF Len(st.active) >= maxToasts \/ Len(st.queue) = 0 THEN st
    ELSE displayToast([st EXCEPT !.queue = Tail(@)], Head(st.queue))

\* the fields after a step that leaves them as st
SetToasts(st) ==
    /\ toastQueue' = st.queue
    /\ activeToasts' = st.active
    /\ toastContainer' = st.container
    /\ autoTimers' = st.timers

\* the UIController exists once initializeApp has run to its end; its
\* steps leave the tracker and the map alone
ToastFrame ==
    /\ pc = "ready"
    /\ UNCHANGED <<pc, lastCall, lastStyle>>
    /\ UNCHANGED trackerVars
    /\ UNCHANGED mapVars
    /\ UNCHANGED probes
    /\ UNCHANGED styleCallCount
    /\ UNCHANGED pageVars

\* showToast(message, type, duration): the ids (Date.now() +
\* Math.random()) are taken to be distinct
ShowToast(duration) ==
    /\ ToastFrame
    /\ toastsShown < MaxToastsShown
    /\ toastsShown' = toastsShown + 1
    /\ SetToasts(processToastQueue(
           [ToastState EXCEPT
              !.queue = Append(@, [id |-> toastsShown + 1,
                                   duration |-> duration])]))
    /\ UNCHANGED removals

\* activeToasts.findIndex(t => t.id === toastId), counted from 1; 0 stands
\* for -1
findIndex(active, toastId) ==
    IF \E k \in 1..Len(active) : active[k].id = toastId
    THEN CHOOSE k \in 1..Len(active) :
           /\ active[k].id = toastId
           /\ \A j \in 1..(k - 1) : active[j].id # toastId
    ELSE 0

\* activeToasts.splice(toastIndex, 1) in the timer of the removal r, which
\* kept the index found when dismissToast was called
splice(active, r) ==
    IF r.toastIndex <= Len(active)
    THEN SubSeq(active, 1, r.toastIndex - 1)
           \o SubSeq(active, r.toastIndex + 1, Len(active))
    ELSE active

\* dismissToast(toastId) up to its setTimeout: the 300 ms timer keeps the
\* toast and the index found now
dismissToast(toastId) ==
    LET toastIndex == findIndex(activeToasts, toastId)
    IN  removals' = IF toastIndex = 0 THEN removals
                    ELSE Append(removals, [id |-> toastId,
                                           toastIndex |-> toastIndex])

\* the close button of an attached toast is clicked
CloseClick(toastId) ==
    /\ ToastFrame
    /\ toastId \in toastContainer
    /\ Len(removals) < MaxRemovals
    /\ dismissToast(toastId)
    /\ UNCHANGED <<toastQueue, activeToasts, toastContainer, autoTimers,
                   toastsShown>>

\* the auto-dismiss timer k fires; a timer set earlier with a duration
\* that is not longer has fired before
AutoDismiss(k) ==
    /\ ToastFrame
    /\ k \in 1..Len(autoTimers)
    /\ \A j \in 1..(k - 1) : autoTimers[j].duration > autoTimers[k].duration
    /\ autoTimers' = SubSeq(autoTimers, 1, k - 1)
                       \o SubSeq(autoTimers, k + 1, Len(autoTimers))
    /\ dismissToast(autoTimers[k].id)
    /\ UNCHANGED <<toastQueue, activeToasts, toastContainer, toastsShown>>

\* the oldest 300 ms timer of dismissToast fires: the toast's element is
\* removed, activeToasts is spliced at the kept index and the queue is
\* processed
RemovalFires ==
    /\ ToastFrame
    /\ removals # <<>>
    /\ removals' = Tail(removals)
    /\ SetToasts(processToastQueue(
           [ToastState EXCEPT
              !.container = @ \ {Head(removals).id},
              !.active = splice(@, Head(removals))]))
    /\ UNCHANGED toastsShown

\* start-up, then the toasts of the UIController
NextToast ==
    \/ Startup
    \/ \E duration \in Durations : ShowToast(duration)
    \/ \E toastId \in 1..MaxToastsShown : CloseClick(toastId)
    \/ \E k \in 1..MaxToastsShown : AutoDismiss(k)
    \/ RemovalFires

InitToast == Init /\ councilData = DataSydneyOnly

SpecToast == InitToast /\ [][NextToast]_vars

\* C29: whatever the interleaving of showToast calls, close clicks and
\* timers, activeToasts holds exactly the toasts whose elements are
\* attached to the toast container, each once.
C29_ActiveToastsAreTheAttached ==
    /\ {activeToasts[k].id : k \in 1..Len(activeToasts)} = toastContainer
    /\ Len(activeToasts) = Cardinality(toastContainer)
====
